---- MODULE Spec2Model ----
(***************************************************************************)
(* Idempotent bulk ingestion of orders (shoppulse/core).                   *)
(*                                                                         *)
(* Each process is one HTTP request served by OrderIngestView.post.  The   *)
(* shared state is the database: the order table, the line-item table and  *)
(* the idempotency-key table.  A request first calls handle_idempotency    *)
(* (lookup, then create under the unique constraint), then streams its     *)
(* rows through validation into bounded batches, each flushed inside one   *)
(* transaction, and at the end stores its summary with                     *)
(* finalize_idempotency.                                                   *)
(***************************************************************************)
EXTENDS Integers, Sequences, FiniteSets, TLC

(* ------------------------------ bounds -------------------------------- *)

\* Longest payload (number of order records) drawn for a request.
MaxRows == 2

\* Longest payload drawn when the field order of the records is varied.
MaxLayoutRows == 1

\* Deepest recursion of handle_idempotency the model follows: the code sets
\* no limit, the model stops a request that would call it once more.
MaxAttempts == 6

\* The processing times (in clock ticks) a run can measure.
Elapsed == {0, 1}

\* Concurrent requests.
Procs == {1, 2}

\* Idempotency-Key header values; "" is the absent header.
Keys == {"", "k1", "k2"}

(* --------------------------- program constants ------------------------ *)

\* views.py: batch_size = 5000, scaled down so that a payload spans batches.
batch_size == 2

\* settings.DEBUG (only read when building the summary's error list).
DEBUG == FALSE

(* ------------------------------ payloads ------------------------------ *)

\* Product references a line item can carry: "p1" is a row of core_product,
\* "px" is a well-formed UUID of no product, "bad" is not a UUID at all.
core_product == {"p1"}

\* order_id 0 stands for an absent order_id; 1 is a client-supplied UUID.
NoOrderId == 0

\* The raw order records the enumerated payloads are built from: a good
\* record, one with a malformed product id, one with an unknown product.
RowKinds ==
    { [order_id |-> NoOrderId, items |-> <<"p1">>],
      [order_id |-> NoOrderId, items |-> <<"bad">>],
      [order_id |-> NoOrderId, items |-> <<"px">>] }

SeqsUpTo(S, n) == UNION { [1..k -> S] : k \in 0..n }

\* The example of the batch-isolation property: five valid rows, the third
\* one rejected by storage.
ExampleRows ==
    << [order_id |-> NoOrderId, items |-> <<"p1">>],
       [order_id |-> NoOrderId, items |-> <<"p1">>],
       [order_id |-> NoOrderId, items |-> <<"px">>],
       [order_id |-> NoOrderId, items |-> <<"p1">>],
       [order_id |-> NoOrderId, items |-> <<"p1">>] >>

\* A payload whose records carry client-supplied order ids, the fourth one
\* repeating the first: its second batch meets a primary key already stored.
DuplicateRows ==
    << [order_id |-> 1,         items |-> <<"p1">>],
       [order_id |-> NoOrderId, items |-> <<"p1">>],
       [order_id |-> NoOrderId, items |-> <<"p1">>],
       [order_id |-> 1,         items |-> <<"p1">>] >>

\* The payload of the partial-failure test, scaled down: a record with a
\* malformed product id between valid records.
MalformedRows ==
    << [order_id |-> NoOrderId, items |-> <<"p1">>],
       [order_id |-> NoOrderId, items |-> <<"bad">>],
       [order_id |-> NoOrderId, items |-> <<"p1">>] >>

\* The orders in which the body of a request can spell the fields of a
\* record; the parsed dict keeps the order of the body.
Layouts == { <<"order_id", "items">>, <<"items", "order_id">> }

\* The field order create_mock_payload uses.
SentOrder == <<"order_id", "items">>

\* request.data: a JSON object with the records under "orders"; `layout`
\* holds, for each record, the order in which its fields were sent.
Payloads ==
    { [orders |-> s, layout |-> [i \in 1..Len(s) |-> SentOrder]] :
        s \in SeqsUpTo(RowKinds, MaxRows) \cup {ExampleRows, DuplicateRows, MalformedRows} }

\* The payloads of at most MaxLayoutRows records, in every field order.
LayoutPayloads ==
    UNION { { [orders |-> s, layout |-> l] : l \in [1..Len(s) -> Layouts] } :
              s \in SeqsUpTo(RowKinds, MaxLayoutRows) }

(* --------------------------- pure functions --------------------------- *)

Range(s) == { s[i] : i \in 1..Len(s) }

\* The field names of a record, in the order sorted() gives them.
Alphabetical == <<"items", "order_id">>

\* sort_keys=True: the keys of an object are written in sorted order.
\* (variant: sort_keys=False, the keys are written in the dict's own order)
sort_keys_off(keys) == keys
sort_keys(keys) == SelectSeq(Alphabetical, LAMBDA k : k \in Range(keys))

\* json.dumps(data, sort_keys=True, default=str): every object as the list
\* of its (key, value) pairs in the order of sort_keys, list order kept.
\* The values are JSON strings and numbers already, default=str meets none.
json_dumps(data) ==
    << "orders", [i \in 1..Len(data.orders) |->
                    [j \in 1..Len(data.layout[i]) |->
                        LET k == sort_keys(data.layout[i])[j]
                        IN  << k, data.orders[i][k] >>]] >>

\* SHA-256 of the serialisation, taken to be collision free.
generate_request_hash(data) == [sha256 |-> json_dumps(data)]

\* dict.get(key): None when the key is absent.
None == [none |-> TRUE]
dict_get(d, k) == IF k \in DOMAIN d THEN d[k] ELSE None

\* BulkOrderIngestSerializer.is_valid: every product_id must parse as a UUID.
is_valid(row) == \A i \in 1..Len(row.items) : row.items[i] # "bad"

\* uuid.uuid4() for the n-th record of request p: a value no one else holds.
uuid4(p, n) == 10 * p + n

\* The order id of the n-th record of request p.
order_id_of(p, n, row) == IF row.order_id # NoOrderId THEN row.order_id ELSE uuid4(p, n)

\* The line-item tuples of one validated record.
item_tuples(oid, row) ==
    [i \in 1..Len(row.items) |-> [order_id |-> oid, product_id |-> row.items[i], line |-> i]]

(* ------------------------------ database ------------------------------ *)

\* cursor.executemany(ORDER_SQL, batch): the rows are inserted one after the
\* other; a row whose primary key is already present raises IntegrityError
\* and the statement stops there, the rows before it already written.
RECURSIVE executemany_orders(_, _)
executemany_orders(tbl, batch) ==
    IF batch = << >> THEN [ok |-> TRUE, tbl |-> tbl]
    ELSE IF Head(batch) \in tbl THEN [ok |-> FALSE, tbl |-> tbl]
    ELSE executemany_orders(tbl \cup {Head(batch)}, Tail(batch))

\* cursor.executemany(ITEM_SQL, batch): line items have a surrogate key and
\* their foreign keys are deferred, so the statement itself cannot fail.
executemany_items(tbl, batch) == tbl \cup Range(batch)

\* The foreign keys of core_orderitem (order, product).  Django declares
\* them DEFERRABLE INITIALLY DEFERRED, so inside transaction.atomic() they
\* are checked at COMMIT, when the atomic block is left.
fk_violated(orders, items) ==
    \E it \in items : it.order_id \notin orders \/ it.product_id \notin core_product

\* with transaction.atomic(): the block's writes become the tables' contents
\* if the block and the commit succeed, and are rolled back otherwise.
\* (variant: no transaction around the block, its writes stay)
atomic_noatomic(before, after, ok) == after
atomic(before, after, ok) == IF ok THEN after ELSE before

\* views.py:115-116 and 139-140: the tables the atomic block writes, in the
\* order of its two executemany calls.
\* (variant: the line items are written first)
statements_items_first == <<"core_orderitem", "core_order">>
statements == <<"core_order", "core_orderitem">>

\* One executemany on the transaction's view tx of the tables.  A statement
\* that raised has left the block: the statements after it are not run.
execute(tx, stmt, obatch, ibatch) ==
    IF ~tx.ok THEN tx
    ELSE IF stmt = "core_order"
    THEN LET r == executemany_orders(tx.o, obatch)
         IN  [o |-> r.tbl, i |-> tx.i, ok |-> r.ok, written |-> Append(tx.written, stmt)]
    ELSE [o |-> tx.o, i |-> executemany_items(tx.i, ibatch), ok |-> TRUE,
          written |-> Append(tx.written, stmt)]

\* The body of one flush (views.py:111-125 and 136-145).
\*   raised:  an exception reached the except clause
\*   counted: rows_inserted += len(order_batch_data) was executed, which
\*            stands inside the atomic block, before its commit
\*   written: the tables the block's statements were issued on, in order
flush(orders, items, obatch, ibatch) ==
    LET tx0 == [o |-> orders, i |-> items, ok |-> TRUE, written |-> << >>]
        tx1 == execute(tx0, statements[1], obatch, ibatch)
        tx2 == execute(tx1, statements[2], obatch, ibatch)
        commit_ok == tx2.ok /\ ~fk_violated(tx2.o, tx2.i)
        db == atomic([o |-> orders, i |-> items], [o |-> tx2.o, i |-> tx2.i], commit_ok)
    IN  [core_order |-> db.o, core_orderitem |-> db.i,
         counted |-> tx2.ok, raised |-> ~commit_ok, written |-> tx2.written]

(* ------------------------------- state -------------------------------- *)

VARIABLES
    core_order,           \* table core_order: the primary keys of its rows
    core_orderitem,       \* table core_orderitem: its rows
    core_idempotencykey,  \* table of IdempotencyKey rows [key, metadata]
    pc,                   \* where each request stands in post()
    request,              \* each request's Idempotency-Key header and body
    status,               \* the status handle_idempotency returned
    key_instance,         \* the IdempotencyKey object post() holds, or None
    rows_received,
    rows_inserted,
    rows_failed,
    errors_metadata,
    order_batch_data,
    item_batch_data,
    response,             \* the Response returned to the client
    attempts,             \* the calls of handle_idempotency the request has made
    prior                 \* the requests that had ended when this one began

db_vars == << core_order, core_orderitem >>
run_vars == << rows_received, rows_inserted, rows_failed, errors_metadata,
               order_batch_data, item_batch_data >>
vars == << core_order, core_orderitem, core_idempotencykey, pc, request, status,
           key_instance, rows_received, rows_inserted, rows_failed,
           errors_metadata, order_batch_data, item_batch_data, response, attempts,
           prior >>

NoRequest == [key |-> "", data |-> [orders |-> << >>, layout |-> << >>]]
NoResponse == [status_code |-> 0, body |-> [none |-> TRUE]]
Ended == {"done", "aborted"}

Init ==
    /\ core_order = {}
    /\ core_orderitem = {}
    /\ core_idempotencykey = {}
    /\ pc = [p \in Procs |-> "idle"]
    /\ request = [p \in Procs |-> NoRequest]
    /\ status = [p \in Procs |-> "NONE"]
    /\ key_instance = [p \in Procs |-> None]
    /\ rows_received = [p \in Procs |-> 0]
    /\ rows_inserted = [p \in Procs |-> 0]
    /\ rows_failed = [p \in Procs |-> 0]
    /\ errors_metadata = [p \in Procs |-> << >>]
    /\ order_batch_data = [p \in Procs |-> << >>]
    /\ item_batch_data = [p \in Procs |-> << >>]
    /\ response = [p \in Procs |-> NoResponse]
    /\ attempts = [p \in Procs |-> 0]
    /\ prior = [p \in Procs |-> {}]

(* ------------------------- handle_idempotency ------------------------- *)

\* IdempotencyKey.objects.get(key=k): the rows holding that key.
objects_get(k) == { r \in core_idempotencykey : r.key = k }

\* utils.py:27, `if not idempotency_key`: no header, or an empty one.
\* (variant: an empty key is looked up and reserved like any other)
no_key_never(k) == FALSE
no_key(k) == k = ""

\* utils.py:38, the comparison that decides CONFLICT.
\* (variant: the fingerprints are not compared)
hash_differs_never(current_hash, metadata) == FALSE
hash_differs(current_hash, metadata) == current_hash # dict_get(metadata, "request_hash")

\* utils.py:52-55, the metadata of a fresh reservation.
pending_metadata(data) ==
    [status |-> "PENDING", request_hash |-> generate_request_hash(data)]

\* views.py:56-62: what post() does once handle_idempotency let it through.
\* An empty data stream is answered 400 at once.
extract(p, data) ==
    IF data.orders = << >>
    THEN /\ pc' = [pc EXCEPT ![p] = "done"]
         /\ response' = [response EXCEPT ![p] =
                [status_code |-> 400, body |-> [error |-> "No order data found in payload."]]]
    ELSE /\ pc' = [pc EXCEPT ![p] = "stream"]
         /\ UNCHANGED response

\* A client sends a request.
Start(p) ==
    /\ pc[p] = "idle"
    /\ \E k \in Keys, d \in Payloads :
          request' = [request EXCEPT ![p] = [key |-> k, data |-> d]]
    /\ pc' = [pc EXCEPT ![p] = "check"]
    /\ prior' = [prior EXCEPT ![p] = { q \in Procs : pc[q] \in Ended }]
    /\ UNCHANGED << db_vars, core_idempotencykey, status, key_instance, run_vars, response,
                    attempts >>

\* A client sends a request whose records spell their fields in any order.
StartAnyLayout(p) ==
    /\ pc[p] = "idle"
    /\ \E k \in Keys \ {""}, d \in LayoutPayloads :
          request' = [request EXCEPT ![p] = [key |-> k, data |-> d]]
    /\ pc' = [pc EXCEPT ![p] = "check"]
    /\ prior' = [prior EXCEPT ![p] = { q \in Procs : pc[q] \in Ended }]
    /\ UNCHANGED << db_vars, core_idempotencykey, status, key_instance, run_vars, response,
                    attempts >>

\* utils.py:27-45 and views.py:45-52: no key, or the lookup of the key.
Lookup(p) ==
    /\ pc[p] = "check"
    /\ LET k == request[p].key
           d == request[p].data
           found == objects_get(k)
       IN  IF no_key(k)
           THEN /\ status' = [status EXCEPT ![p] = "NO_KEY"]
                /\ extract(p, d)
           ELSE IF found # {}
           THEN LET existing_key == CHOOSE r \in found : TRUE
                IN  IF hash_differs(generate_request_hash(d), existing_key.metadata)
                    THEN /\ status' = [status EXCEPT ![p] = "CONFLICT"]
                         /\ response' = [response EXCEPT ![p] =
                               [status_code |-> 409,
                                body |-> [error |-> "Idempotency key reused with different payload"]]]
                         /\ pc' = [pc EXCEPT ![p] = "done"]
                    ELSE /\ status' = [status EXCEPT ![p] = "HIT"]
                         /\ response' = [response EXCEPT ![p] =
                               [status_code |-> 200, body |-> existing_key.metadata]]
                         /\ pc' = [pc EXCEPT ![p] = "done"]
           ELSE /\ pc' = [pc EXCEPT ![p] = "reserve"]
                /\ UNCHANGED << status, response >>
    /\ attempts' = [attempts EXCEPT ![p] = @ + 1]
    /\ UNCHANGED << db_vars, core_idempotencykey, request, key_instance, run_vars, prior >>

\* models.py:86, unique=True: objects.create raises IntegrityError when a
\* row with that key is there.
\* (variant: the create raises whatever is stored)
create_raises_always(k) == TRUE
create_raises(k) == objects_get(k) # {}

\* utils.py:47-61: create the row under the unique constraint on key; a
\* concurrent creator makes it raise IntegrityError, and handle_idempotency
\* calls itself again.  The model follows the recursion up to MaxAttempts
\* calls.
Reserve(p) ==
    /\ pc[p] = "reserve"
    /\ LET k == request[p].key
           d == request[p].data
       IN  IF ~create_raises(k)
           THEN /\ core_idempotencykey' = core_idempotencykey \cup
                        {[key |-> k, metadata |-> pending_metadata(d)]}
                /\ status' = [status EXCEPT ![p] = "MISS"]
                /\ key_instance' = [key_instance EXCEPT ![p] = [key |-> k]]
                /\ extract(p, d)
           ELSE /\ attempts[p] < MaxAttempts
                /\ pc' = [pc EXCEPT ![p] = "check"]
                /\ UNCHANGED << core_idempotencykey, status, key_instance, response >>
    /\ UNCHANGED << db_vars, request, run_vars, attempts, prior >>

(* ------------------------------ streaming ----------------------------- *)

\* views.py:117 and 142: rows_inserted += len(order_batch_data).
inserted_rows(f, obatch) == IF f.counted THEN Len(obatch) ELSE 0

\* views.py:120 and 144: rows_failed += len(order_batch_data).
\* (variant: a failed batch counted as one failed row)
failed_rows_one(f, obatch) == IF f.raised THEN 1 ELSE 0
failed_rows(f, obatch) == IF f.raised THEN Len(obatch) ELSE 0

\* views.py:79: the for loop has consumed the whole data stream.
\* (variant: the loop left before the stream is consumed)
stream_exhausted_early(p) == TRUE
stream_exhausted(p) == rows_received[p] = Len(request[p].data.orders)

\* The counters and the error list after one flush of a batch (views.py:
\* 111-125); `entry` is the error recorded when the flush raises.
after_flush(p, f, obatch, entry) ==
    /\ core_order' = f.core_order
    /\ core_orderitem' = f.core_orderitem
    /\ rows_inserted' = [rows_inserted EXCEPT ![p] = @ + inserted_rows(f, obatch)]
    /\ rows_failed' = [rows_failed EXCEPT ![p] = @ + failed_rows(f, obatch)]
    /\ errors_metadata' = [errors_metadata EXCEPT ![p] =
            IF f.raised THEN Append(@, entry) ELSE @]

\* views.py:128: order_batch_data, item_batch_data = [], [] after a flush.
\* (variant: the flushed batch is kept)
new_batch_kept(batch) == batch
new_batch(batch) == << >>

\* views.py:133, the error entry of a record that failed validation.
\* (variant: the record's position counted from 0)
validation_error_from_zero(n) == [row_number |-> n - 1, errors |-> "invalid"]
validation_error(n) == [row_number |-> n, errors |-> "invalid"]

\* views.py:79-133, one iteration of `for row in data_stream`.
Row(p) ==
    /\ pc[p] = "stream"
    /\ rows_received[p] < Len(request[p].data.orders)
    /\ LET n == rows_received[p] + 1
           row == request[p].data.orders[n]
       IN  /\ rows_received' = [rows_received EXCEPT ![p] = n]
           /\ IF is_valid(row)
              THEN LET oid == order_id_of(p, n, row)
                       obatch == Append(order_batch_data[p], oid)
                       ibatch == item_batch_data[p] \o item_tuples(oid, row)
                   IN  IF Len(obatch) >= batch_size
                       THEN /\ after_flush(p,
                                   flush(core_order, core_orderitem, obatch, ibatch),
                                   obatch,
                                   [type |-> "Batch DB Error",
                                    detail |-> n - Len(obatch),
                                    first_order_id |-> obatch[1]])
                            /\ order_batch_data' = [order_batch_data EXCEPT ![p] = new_batch(obatch)]
                            /\ item_batch_data' = [item_batch_data EXCEPT ![p] = new_batch(ibatch)]
                       ELSE /\ order_batch_data' = [order_batch_data EXCEPT ![p] = obatch]
                            /\ item_batch_data' = [item_batch_data EXCEPT ![p] = ibatch]
                            /\ UNCHANGED << db_vars, rows_inserted, rows_failed,
                                            errors_metadata >>
              ELSE /\ rows_failed' = [rows_failed EXCEPT ![p] = @ + 1]
                   /\ errors_metadata' = [errors_metadata EXCEPT ![p] =
                          Append(@, validation_error(n))]
                   /\ UNCHANGED << db_vars, rows_inserted, order_batch_data,
                                   item_batch_data >>
    /\ UNCHANGED << core_idempotencykey, pc, request, status, key_instance,
                    response, attempts, prior >>

\* views.py:135-145, the trailing batch once the stream is exhausted.
FinalFlush(p) ==
    /\ pc[p] = "stream"
    /\ stream_exhausted(p)
    /\ IF order_batch_data[p] # << >>
       THEN after_flush(p,
                flush(core_order, core_orderitem, order_batch_data[p], item_batch_data[p]),
                order_batch_data[p],
                [type |-> "Final Batch DB Error"])
       ELSE UNCHANGED << db_vars, rows_inserted, rows_failed, errors_metadata >>
    /\ pc' = [pc EXCEPT ![p] = "finalize"]
    /\ UNCHANGED << core_idempotencykey, request, status, key_instance, rows_received,
                    order_batch_data, item_batch_data, response, attempts, prior >>

(* ------------------------ summary and finalize ------------------------ *)

\* views.py:148-156, the summary of a run that took `elapsed` clock ticks.
response_summary(p, elapsed) ==
    [rows_received |-> rows_received[p],
     rows_inserted |-> rows_inserted[p],
     rows_failed |-> rows_failed[p],
     processing_time |-> elapsed,
     idempotency_key |-> request[p].key,
     errors |-> IF DEBUG \/ rows_failed[p] > 0 THEN errors_metadata[p] ELSE << >>]

\* utils.py:69: response_summary['status'] = 'COMPLETED', set on the very
\* dictionary the view goes on to return.
completed(summary) ==
    [f \in DOMAIN summary \cup {"status"} |->
        IF f = "status" THEN "COMPLETED" ELSE summary[f]]

\* utils.py:70-71: instance.metadata = response_summary; instance.save().
\* (variant: the update reaches every row of the table)
save_all(tbl, instance, metadata) == { [r EXCEPT !.metadata = metadata] : r \in tbl }
save(tbl, instance, metadata) ==
    { IF r.key = instance.key THEN [r EXCEPT !.metadata = metadata] ELSE r : r \in tbl }

\* utils.py:64-71, finalize_idempotency(instance, response_summary): the
\* table after the save, and the caller's dictionary, which the function
\* has changed in place.
\* (variant: the function works on a copy, the caller's dictionary is as it was)
finalize_idempotency_on_copy(tbl, instance, summary) ==
    [tbl |-> save(tbl, instance, completed(summary)), response_summary |-> summary]
finalize_idempotency(tbl, instance, summary) ==
    [tbl |-> save(tbl, instance, completed(summary)),
     response_summary |-> completed(summary)]

\* views.py:160, the status code of a run that reached its end.
status_code_of(inserted) == IF inserted > 0 THEN 200 ELSE 400

\* views.py:147-161 with utils.py:64-71.
Finalize(p) ==
    /\ pc[p] = "finalize"
    /\ \E elapsed \in Elapsed :
          LET summary == response_summary(p, elapsed)
              done == IF key_instance[p] # None
                      THEN finalize_idempotency(core_idempotencykey, key_instance[p], summary)
                      ELSE [tbl |-> core_idempotencykey, response_summary |-> summary]
          IN  /\ core_idempotencykey' = done.tbl
              /\ response' = [response EXCEPT ![p] =
                    [status_code |-> status_code_of(rows_inserted[p]),
                     body |-> done.response_summary]]
    /\ pc' = [pc EXCEPT ![p] = "done"]
    /\ UNCHANGED << db_vars, request, status, key_instance, run_vars, attempts, prior >>

\* The worker serving the request dies, or its client goes away, after the
\* key was handled and before finalize_idempotency ran.
Abort(p) ==
    /\ pc[p] \in {"stream", "finalize"}
    /\ pc' = [pc EXCEPT ![p] = "aborted"]
    /\ UNCHANGED << db_vars, core_idempotencykey, request, status, key_instance,
                    run_vars, response, attempts, prior >>

Next ==
    \E p \in Procs :
        \/ Start(p)
        \/ Lookup(p)
        \/ Reserve(p)
        \/ Row(p)
        \/ FinalFlush(p)
        \/ Finalize(p)
        \/ Abort(p)

Spec == Init /\ [][Next]_vars

\* The same program, fed keyed requests in every field order.
NextAnyLayout ==
    \E p \in Procs :
        \/ StartAnyLayout(p)
        \/ Lookup(p)
        \/ Reserve(p)
        \/ Row(p)
        \/ FinalFlush(p)
        \/ Finalize(p)
        \/ Abort(p)

SpecAnyLayout == Init /\ [][NextAnyLayout]_vars

(* ============================= properties ============================= *)

\* The fingerprint of request p's body.
Fingerprint(p) == generate_request_hash(request[p].data)

\* Request q began after request p had ended, under the same non-empty key.
Follows(p, q) ==
    /\ p # q
    /\ p \in prior[q]
    /\ request[p].key # ""
    /\ request[q].key = request[p].key

\* Requests p and q overlapped in time, under the same non-empty key.
Overlap(p, q) ==
    /\ p # q
    /\ pc[p] # "idle" /\ pc[q] # "idle"
    /\ p \notin prior[q] /\ q \notin prior[p]
    /\ request[p].key # ""
    /\ request[q].key = request[p].key

\* The rows of the idempotency-key table and of the order tables.
Shared == << core_order, core_orderitem, core_idempotencykey >>

\* The requests that returned a summary of their own run.
Summarised(p) == pc[p] = "done" /\ "rows_received" \in DOMAIN response[p].body
                    /\ status[p] \in {"MISS", "NO_KEY"}

\* C1: a request that repeats, after it returned, an earlier request with the
\* same key and payload takes the HIT path, returns the summary the first
\* call returned, and has done no pipeline work.
C1_SequentialReplay ==
    \A p, q \in Procs :
        ( /\ Follows(p, q)
          /\ Summarised(p) /\ status[p] = "MISS"
          /\ request[q].data = request[p].data
          /\ pc[q] = "done" )
        => /\ status[q] = "HIT"
           /\ response[q].body = response[p].body
           /\ rows_received[q] = 0
           /\ key_instance[q] = None

\* C2: a request that reuses, after it ended, the key of an earlier request
\* with a payload of another fingerprint is answered 409 and writes nothing:
\* no step it takes changes the order tables or the idempotency-key table.
C2_Reuse(p, q) ==
    /\ Follows(p, q)
    /\ status[p] = "MISS"
    /\ Fingerprint(q) # Fingerprint(p)

C2_Answer ==
    \A p, q \in Procs :
        (C2_Reuse(p, q) /\ pc[q] # "check")
        => /\ pc[q] = "done"
           /\ status[q] = "CONFLICT"
           /\ response[q].status_code = 409
           /\ rows_received[q] = 0
           /\ key_instance[q] = None

C2_NoWrite ==
    \A p, q \in Procs :
        (C2_Reuse(p, q)' /\ pc'[q] # pc[q]) => UNCHANGED Shared

C2_ConflictOnReuse == [] C2_Answer /\ [][C2_NoWrite]_vars

C2_Witness ==
    \E p, q \in Procs :
        /\ C2_Reuse(p, q)
        /\ pc[p] = "done" /\ response[p].status_code = 200
        /\ pc[q] = "done" /\ status[q] = "CONFLICT"

\* C3: of the overlapping requests that carry the same fresh key and the same
\* payload, one does the validate-and-insert work and every other one ends
\* in HIT without having inserted anything.
C3_ConcurrentDuplicates ==
    \A p, q \in Procs :
        ( /\ Overlap(p, q)
          /\ request[q].data = request[p].data
          /\ status[p] = "MISS"
          /\ pc[q] = "done" )
        => /\ status[q] = "HIT"
           /\ rows_received[q] = 0
           /\ rows_inserted[q] = 0

\* C4: in the summary of every run that reaches the summary step,
\* rows_received = rows_inserted + rows_failed.
C4_Accounting ==
    \A p \in Procs :
        Summarised(p) =>
            response[p].body.rows_received =
                response[p].body.rows_inserted + response[p].body.rows_failed

\* The order batch and the item batch request p hands to a flush in the
\* step at hand: the full batch of a loop iteration, or the trailing batch;
\* empty when the step flushes nothing.
FlushedOrders(p) ==
    IF pc[p] = "stream" /\ rows_received'[p] = rows_received[p] + 1
    THEN LET n == rows_received[p] + 1
             row == request[p].data.orders[n]
         IN  IF is_valid(row) /\ Len(order_batch_data[p]) + 1 >= batch_size
             THEN Append(order_batch_data[p], order_id_of(p, n, row))
             ELSE << >>
    ELSE IF pc[p] = "stream" /\ pc'[p] = "finalize"
    THEN order_batch_data[p]
    ELSE << >>

FlushedItems(p) ==
    IF pc[p] = "stream" /\ rows_received'[p] = rows_received[p] + 1
    THEN LET n == rows_received[p] + 1
             row == request[p].data.orders[n]
         IN  item_batch_data[p] \o item_tuples(order_id_of(p, n, row), row)
    ELSE item_batch_data[p]

\* The step at hand recorded a batch error for request p.
BatchErrorRecorded(p) ==
    /\ Len(errors_metadata'[p]) = Len(errors_metadata[p]) + 1
    /\ "type" \in DOMAIN errors_metadata'[p][Len(errors_metadata'[p])]

\* The batch errors request p has recorded.
BatchErrors(p) ==
    { i \in 1..Len(errors_metadata[p]) : "type" \in DOMAIN errors_metadata[p][i] }

\* C5: a storage failure while flushing a batch fails that batch alone: its
\* rows are all counted in rows_failed, nothing of it is stored, the run goes
\* on, rows stored earlier stay, and a batch whose flush does not fail is
\* stored and counted in rows_inserted.  In the example (batch size 2, five
\* valid rows, the third rejected by storage) rows 1, 2 and 5 are stored and
\* rows 3 and 4 are reported failed.
C5_Flush ==
    \A p \in Procs :
        LET b == FlushedOrders(p)
        IN  b # << >> =>
              /\ pc'[p] \in {"stream", "finalize"}
              /\ core_order \subseteq core_order'
              /\ core_orderitem \subseteq core_orderitem'
              /\ IF BatchErrorRecorded(p)
                 THEN /\ rows_failed'[p] = rows_failed[p] + Len(b)
                      /\ UNCHANGED db_vars
                 ELSE /\ rows_failed'[p] = rows_failed[p]
                      /\ rows_inserted'[p] = rows_inserted[p] + Len(b)
                      /\ Range(b) \subseteq core_order'

C5_Example ==
    \A p \in Procs :
        (request[p].data.orders = ExampleRows /\ (pc[p] = "finalize" \/ Summarised(p)))
        => /\ {uuid4(p, 1), uuid4(p, 2), uuid4(p, 5)} \subseteq core_order
           /\ {uuid4(p, 3), uuid4(p, 4)} \cap core_order = {}
           /\ rows_failed[p] = 2
           /\ Cardinality(BatchErrors(p)) = 1

C5_BatchIsolation == [] C5_Example /\ [][C5_Flush]_vars

C5_Witness ==
    \E p \in Procs :
        /\ request[p].data.orders = ExampleRows
        /\ pc[p] = "done"
        /\ BatchErrors(p) # {}
        /\ {uuid4(p, 1), uuid4(p, 5)} \subseteq core_order

\* The batch (counted from 0) each record of a payload goes into once it has
\* passed validation: batch_size valid records fill a batch.
BatchOf(rows) ==
    [n \in 1..Len(rows) |->
        (Cardinality({ m \in 1..n : is_valid(rows[m]) }) - 1) \div batch_size]

\* The valid records without an order id among the first k of a payload.
Generated(rows, k) ==
    { n \in 1..k : is_valid(rows[n]) /\ rows[n].order_id = NoOrderId }

\* The record n of request p, which carried no order id, is stored whole.
Stored(p, n) ==
    /\ uuid4(p, n) \in core_order
    /\ Range(item_tuples(uuid4(p, n), request[p].data.orders[n])) \subseteq core_orderitem

\* Nothing of record n of request p is stored.
Absent(p, n) ==
    /\ uuid4(p, n) \notin core_order
    /\ \A it \in core_orderitem : it.order_id # uuid4(p, n)

\* C6: a flush stores every order row and every line-item row of its batch or
\* none of them, and no state of the tables holds part of a batch: a line
\* item never lacks its order or its product, and the records of one batch
\* are stored whole together or are absent together.
C6_Flush ==
    \A p \in Procs :
        LET b == FlushedOrders(p)
            ib == FlushedItems(p)
        IN  b # << >> =>
              \/ UNCHANGED db_vars
              \/ /\ Range(b) \cap core_order = {}
                 /\ core_order' = core_order \cup Range(b)
                 /\ core_orderitem' = core_orderitem \cup Range(ib)

C6_Tables ==
    /\ \A it \in core_orderitem :
          it.order_id \in core_order /\ it.product_id \in core_product
    /\ \A p \in Procs :
          LET rows == request[p].data.orders
              batch == BatchOf(rows)
              seen == Generated(rows, rows_received[p])
          IN  /\ \A n \in seen : Stored(p, n) \/ Absent(p, n)
              /\ \A n, m \in seen :
                    (n < m /\ batch[n] = batch[m]) => (Stored(p, n) <=> Stored(p, m))

C6_BatchAtomic == [] C6_Tables /\ [][C6_Flush]_vars

C6_Witness ==
    \E p \in Procs :
        /\ request[p].data.orders = DuplicateRows
        /\ pc[p] = "done"
        /\ BatchErrors(p) # {}
        /\ {1, uuid4(p, 2)} \subseteq core_order
        /\ uuid4(p, 3) \notin core_order

\* C7: what a HIT returns is the stored final summary of the completed
\* original run, with its row counts and processing time; it is never the
\* metadata of a record that is still PENDING.
C7_HitReturnsSummary ==
    \A q \in Procs :
        status[q] = "HIT" =>
            /\ dict_get(response[q].body, "status") = "COMPLETED"
            /\ {"rows_received", "rows_inserted", "rows_failed", "processing_time"}
                   \subseteq DOMAIN response[q].body

\* C8: the table holds at most one record per key, and the record a request
\* created still stores the fingerprint it was created with, in every later
\* state, also once finalize has completed it.
C8_OneRecordFingerprintKept ==
    /\ \A k \in Keys : Cardinality(objects_get(k)) <= 1
    /\ \A p \in Procs :
          status[p] = "MISS" =>
              \E r \in objects_get(request[p].key) :
                  dict_get(r.metadata, "request_hash") = Fingerprint(p)

\* The trailing batch of request p, which post() keeps after its last flush,
\* has been through that flush: it is stored, or its failure is recorded.
TrailingFlushed(p) ==
    \/ order_batch_data[p] = << >>
    \/ Range(order_batch_data[p]) \subseteq core_order
    \/ \E i \in BatchErrors(p) : errors_metadata[p][i].type = "Final Batch DB Error"

\* C9: a record is COMPLETED only if the run that reserved it consumed the
\* whole input sequence and flushed the trailing batch; a run that stopped
\* before that leaves its record PENDING.
C9_CompletedOnlyAfterFullPass ==
    /\ \A r \in core_idempotencykey :
          dict_get(r.metadata, "status") = "COMPLETED" =>
              \E p \in Procs :
                  /\ status[p] = "MISS" /\ key_instance[p] = [key |-> r.key]
                  /\ pc[p] = "done"
                  /\ rows_received[p] = Len(request[p].data.orders)
                  /\ r.metadata.rows_received = Len(request[p].data.orders)
                  /\ TrailingFlushed(p)
    /\ \A p \in Procs :
          (status[p] = "MISS" /\ pc[p] \in {"stream", "finalize", "aborted"}) =>
              \A r \in objects_get(request[p].key) : r.metadata.status = "PENDING"

C9_Witness ==
    \E p, q \in Procs :
        /\ status[p] = "MISS" /\ pc[p] = "done"
        /\ Len(request[p].data.orders) >= 2 /\ order_batch_data[p] # << >>
        /\ \E r \in objects_get(request[p].key) : r.metadata.status = "COMPLETED"
        /\ status[q] = "MISS" /\ pc[q] = "aborted"
        /\ rows_received[q] < Len(request[q].data.orders)
        /\ \E r \in objects_get(request[q].key) : r.metadata.status = "PENDING"

\* C10: when a run that reserved a key was aborted before finalize, a later
\* request with the same key and payload processes the payload again, and is
\* not answered from the record without the work being done.
C10_RetryAfterAbortReprocesses ==
    \A p, q \in Procs :
        ( /\ Follows(p, q)
          /\ status[p] = "MISS" /\ pc[p] = "aborted"
          /\ request[q].data = request[p].data
          /\ pc[q] = "done" )
        => /\ status[q] # "HIT"
           /\ rows_received[q] = Len(request[q].data.orders)

\* C11: a request that carries a key and an empty payload still has its
\* reservation finalized: when it has returned, the record of its key is
\* COMPLETED with a summary of zero rows, and a later request with the same
\* key and payload is answered HIT with that summary.
C11_EmptyPayloadFinalized ==
    \A p \in Procs :
        ( /\ status[p] = "MISS" /\ pc[p] = "done"
          /\ request[p].data.orders = << >> )
        => /\ \E r \in objects_get(request[p].key) :
                  /\ r.metadata.status = "COMPLETED"
                  /\ r.metadata.rows_received = 0
           /\ \A q \in Procs :
                  ( /\ Follows(p, q) /\ pc[q] = "done"
                    /\ request[q].data = request[p].data )
                  => /\ status[q] = "HIT"
                     /\ response[q].body.status = "COMPLETED"

\* Request p takes a step of post().
Stepped(p) == pc'[p] # pc[p] \/ rows_received'[p] # rows_received[p]

\* C12: a request without a key, or with an empty one, is passed through:
\* handle_idempotency answers NO_KEY and hands out no record, the pipeline
\* processes the whole payload and returns its summary, no step of the
\* request changes the idempotency-key table, and finalize writes nothing.
C12_Passed ==
    \A p \in Procs :
        (request[p].key = "" /\ pc[p] \notin {"idle", "check"})
        => /\ status[p] = "NO_KEY"
           /\ key_instance[p] = None
           /\ objects_get(request[p].key) = {}
           /\ (pc[p] = "done" /\ request[p].data.orders # << >>)
                 => /\ rows_received[p] = Len(request[p].data.orders)
                    /\ response[p].body.rows_received = rows_received[p]
                    /\ "status" \notin DOMAIN response[p].body

C12_NoLedgerWrite ==
    \A p \in Procs :
        (Stepped(p) /\ request'[p].key = "")
        => core_idempotencykey' = core_idempotencykey

C12_Passthrough == [] C12_Passed /\ [][C12_NoLedgerWrite]_vars

C12_Witness ==
    \E p, q \in Procs :
        /\ request[p].key = "" /\ pc[p] = "done"
        /\ rows_received[p] = 2 /\ rows_inserted[p] = 2
        /\ response[p].status_code = 200
        /\ status[q] = "MISS" /\ pc[q] = "done"
        /\ core_idempotencykey # {}

\* The outcomes handle_idempotency returns.
Outcomes == {"NO_KEY", "HIT", "CONFLICT", "MISS"}

\* C13: under any interleaving of requests on the same key, every call of
\* handle_idempotency returns an outcome after at most 5 attempts: a request
\* that waits for its outcome always has a step to take, a create that lost
\* the race is followed by one lookup, which finds the record and ends in HIT
\* or CONFLICT, and no request recurses further.
C13_BoundedRetry ==
    \A p \in Procs :
        /\ attempts[p] <= 5
        /\ pc[p] \in {"check", "reserve"} => ENABLED (Lookup(p) \/ Reserve(p))
        /\ pc[p] \notin {"idle", "check", "reserve"} =>
              /\ status[p] \in Outcomes
              /\ attempts[p] >= 1
              /\ attempts[p] > 1 => status[p] \in {"HIT", "CONFLICT"}

C13_Witness ==
    \E p, q \in Procs :
        /\ Overlap(p, q)
        /\ status[p] = "MISS"
        /\ attempts[q] = 2 /\ status[q] = "CONFLICT" /\ pc[q] = "done"

\* The rows of request p that reached the tables: those it consumed, less
\* the rows that failed validation and the rows of batches that failed.
RowsStored(p) == rows_received[p] - rows_failed[p]

\* C14: the status of every answered call is 200 when the call is a replay
\* (HIT) or at least one of its rows was inserted, 409 when the key was
\* reused with another content, and 400 when no row was inserted and the
\* call is no replay, a run whose every row failed validation or insertion
\* included.
C14_StatusSignal ==
    \A p \in Procs :
        pc[p] = "done" =>
            response[p].status_code =
                CASE status[p] = "HIT" -> 200
                  [] status[p] = "CONFLICT" -> 409
                  [] OTHER -> IF RowsStored(p) > 0 THEN 200 ELSE 400

\* The positions of the records of `rows` that pass / fail validation.
ValidRows(rows) == { n \in 1..Len(rows) : is_valid(rows[n]) }
InvalidRows(rows) == { n \in 1..Len(rows) : ~is_valid(rows[n]) }

\* Every record of `rows` that passes validation can be stored: it names a
\* known product and takes a generated order id.
Storable(rows) ==
    \A n \in ValidRows(rows) :
        /\ rows[n].order_id = NoOrderId
        /\ Range(rows[n].items) \subseteq core_product

\* The row numbers of the validation errors request p has recorded, in the
\* order of the list.
RowNumbers(p) ==
    LET idx == { i \in 1..Len(errors_metadata[p]) :
                    "row_number" \in DOMAIN errors_metadata[p][i] }
    IN  [i \in idx |-> errors_metadata[p][i].row_number]

\* C15: a record that fails validation does not end the stream: consuming it
\* adds exactly 1 to rows_failed and appends one error entry carrying the
\* record's 1-based position, and touches neither the batch nor the tables;
\* the valid records of the payload are still batched and inserted.  With
\* one malformed record between two valid ones the run ends with
\* rows_received 3, rows_inserted 2, rows_failed 1 and one error entry.
C15_Row ==
    \A p \in Procs :
        ( /\ rows_received'[p] = rows_received[p] + 1
          /\ ~is_valid(request[p].data.orders[rows_received'[p]]) )
        => /\ pc'[p] = "stream"
           /\ rows_failed'[p] = rows_failed[p] + 1
           /\ rows_inserted'[p] = rows_inserted[p]
           /\ Len(errors_metadata'[p]) = Len(errors_metadata[p]) + 1
           /\ SubSeq(errors_metadata'[p], 1, Len(errors_metadata[p])) = errors_metadata[p]
           /\ "row_number" \in DOMAIN errors_metadata'[p][Len(errors_metadata'[p])]
           /\ errors_metadata'[p][Len(errors_metadata'[p])].row_number = rows_received'[p]
           /\ order_batch_data'[p] = order_batch_data[p]
           /\ item_batch_data'[p] = item_batch_data[p]
           /\ UNCHANGED db_vars

C15_Totals ==
    \A p \in Procs :
        LET rows == request[p].data.orders
        IN  ( /\ pc[p] = "finalize" \/ Summarised(p)
              /\ Storable(rows) )
            => /\ rows_received[p] = Len(rows)
               /\ rows_failed[p] = Cardinality(InvalidRows(rows))
               /\ rows_inserted[p] = Cardinality(ValidRows(rows))
               /\ Len(errors_metadata[p]) = Cardinality(InvalidRows(rows))
               /\ { RowNumbers(p)[i] : i \in DOMAIN RowNumbers(p) } = InvalidRows(rows)
               /\ \A n \in ValidRows(rows) : uuid4(p, n) \in core_order

C15_ValidationFailure == [] C15_Totals /\ [][C15_Row]_vars

C15_Witness ==
    \E p \in Procs :
        /\ request[p].data.orders = MalformedRows
        /\ Summarised(p)
        /\ response[p].body.rows_received = 3
        /\ response[p].body.rows_inserted = 2
        /\ response[p].body.rows_failed = 1
        /\ Len(response[p].body.errors) = 1
        /\ response[p].body.errors[1].row_number = 2
        /\ {uuid4(p, 1), uuid4(p, 3)} \subseteq core_order

\* C16: the fingerprint does not depend on the order in which the fields of
\* the body were sent: two requests whose bodies hold the same records, each
\* key with the same value, have the same fingerprint whatever the field
\* order of either, so that a request that meets the PENDING record of a
\* request of the same content is never answered CONFLICT.
C16_FieldOrderIndependent ==
    \A p, q \in Procs :
        ( /\ pc[p] # "idle" /\ pc[q] # "idle"
          /\ request[p].data.orders = request[q].data.orders )
        => /\ Fingerprint(p) = Fingerprint(q)
           /\ ( /\ request[p].key = request[q].key
                /\ status[p] = "MISS" /\ pc[p] \in {"stream", "finalize", "aborted"}
                /\ pc[q] = "done" )
              => /\ status[q] = "HIT"
                 /\ response[q].body.request_hash = Fingerprint(q)

C16_Witness ==
    \E p, q \in Procs :
        /\ request[p].data.orders = request[q].data.orders
        /\ request[p].data.orders # << >>
        /\ request[p].data.layout # request[q].data.layout
        /\ request[p].key = request[q].key
        /\ status[p] = "MISS" /\ pc[p] = "stream"
        /\ status[q] = "HIT"

\* The order ids of the valid records among the first k of request p, in
\* stream order.
RECURSIVE ValidatedIds(_, _)
ValidatedIds(p, k) ==
    IF k = 0 THEN << >>
    ELSE LET row == request[p].data.orders[k]
         IN  IF is_valid(row)
             THEN Append(ValidatedIds(p, k - 1), order_id_of(p, k, row))
             ELSE ValidatedIds(p, k - 1)

\* The last n elements of s.
LastOf(s, n) == SubSeq(s, Len(s) - n + 1, Len(s))

\* This step shows a flush of batch b by request p: either its rows are
\* added to core_order, or a batch error is recorded and the tables stay.
FlushSeen(p, b) ==
    \/ /\ core_order' = core_order \cup Range(b)
       /\ errors_metadata'[p] = errors_metadata[p]
    \/ /\ BatchErrorRecorded(p)
       /\ UNCHANGED db_vars

\* This step shows no flush by request p.
NoFlushSeen(p) ==
    /\ UNCHANGED db_vars
    /\ ~BatchErrorRecorded(p)

\* C17: while a request streams, its batch holds fewer than batch_size rows
\* between two records and never more than batch_size: the batch is flushed
\* exactly when a validated row fills it, and is empty after that flush
\* whether the flush committed or failed; when the stream is exhausted a
\* non-empty batch is flushed once more; so the batch always holds the
\* validated rows received since the last flush, and every validated row
\* is flushed exactly once.
C17_Buffer ==
    \A p \in Procs :
        LET ids == ValidatedIds(p, rows_received[p])
        IN  /\ Len(order_batch_data[p]) < batch_size
            /\ order_batch_data[p] = LastOf(ids, Len(ids) % batch_size)

C17_Step ==
    \A p \in Procs :
        LET n == rows_received'[p]
            b == order_batch_data[p]
        IN  /\ ( /\ rows_received'[p] = rows_received[p] + 1
                 /\ is_valid(request[p].data.orders[n]) )
                => LET filled == Append(b, order_id_of(p, n, request[p].data.orders[n]))
                   IN  IF Len(filled) = batch_size
                       THEN /\ FlushSeen(p, filled)
                            /\ order_batch_data'[p] = << >>
                            /\ item_batch_data'[p] = << >>
                       ELSE /\ NoFlushSeen(p)
                            /\ order_batch_data'[p] = filled
            /\ ( /\ rows_received'[p] = rows_received[p] + 1
                 /\ ~is_valid(request[p].data.orders[n]) )
                => /\ NoFlushSeen(p)
                   /\ order_batch_data'[p] = b
            /\ (pc[p] = "stream" /\ pc'[p] = "finalize")
                => /\ rows_received[p] = Len(request[p].data.orders)
                   /\ IF b # << >> THEN FlushSeen(p, b) ELSE NoFlushSeen(p)
            /\ (pc'[p] # pc[p] /\ ~(pc[p] = "stream" /\ pc'[p] = "finalize"))
                => NoFlushSeen(p)

C17_BoundedBatch == [] C17_Buffer /\ [][C17_Step]_vars

C17_Witness ==
    \E p \in Procs :
        /\ request[p].data.orders = ExampleRows
        /\ pc[p] = "finalize"
        /\ order_batch_data[p] = << uuid4(p, 5) >>
        /\ {uuid4(p, 1), uuid4(p, 2), uuid4(p, 5)} \subseteq core_order
        /\ Cardinality(BatchErrors(p)) = 1

\* C18: a record of the idempotency-key table is never deleted; it changes
\* at most once after its creation, from PENDING to COMPLETED, in the
\* finalize step of the request that holds MISS for its key, and a COMPLETED
\* record never changes again; only a request that holds MISS writes to the
\* table, so requests that end in HIT, CONFLICT or NO_KEY never do.
C18_Record ==
    \A r \in core_idempotencykey :
        \E r2 \in core_idempotencykey' :
            /\ r2.key = r.key
            /\ \/ r2 = r
               \/ /\ r.metadata.status = "PENDING"
                  /\ r2.metadata.status = "COMPLETED"
                  /\ \E p \in Procs :
                        /\ status[p] = "MISS"
                        /\ request[p].key = r.key
                        /\ pc[p] = "finalize" /\ pc'[p] = "done"

C18_Writer ==
    /\ core_idempotencykey' # core_idempotencykey
          => \E p \in Procs : Stepped(p) /\ status'[p] = "MISS"
    /\ \A p \in Procs :
          (Stepped(p) /\ status'[p] \in {"HIT", "CONFLICT", "NO_KEY"})
              => core_idempotencykey' = core_idempotencykey
    /\ \A k \in Keys : Cardinality({ r \in core_idempotencykey' : r.key = k }) <= 1

C18_LedgerWrites == [][C18_Record /\ C18_Writer]_vars

C18_Witness ==
    \E p, q \in Procs :
        /\ status[p] = "MISS" /\ pc[p] = "done"
        /\ \E r \in objects_get(request[p].key) :
              r.metadata.status = "COMPLETED" /\ r.metadata.rows_inserted > 0
        /\ status[q] = "MISS" /\ pc[q] = "done"
        /\ request[q].key # request[p].key
        /\ \E r \in objects_get(request[q].key) : r.metadata.status = "COMPLETED"

\* C19: of the requests that call handle_idempotency with one key, whatever
\* their payloads and however they interleave, at most one gets MISS; a
\* request whose create lost the race looks the key up again and ends in HIT
\* when its fingerprint is that of the winner, in CONFLICT when it is not,
\* and never in MISS.
C19_SingleMiss ==
    \A p, q \in Procs :
        ( /\ p # q
          /\ request[p].key # "" /\ request[q].key = request[p].key
          /\ status[p] = "MISS" )
        => /\ status[q] # "MISS"
           /\ (attempts[q] > 1 /\ pc[q] = "done")
                 => status[q] = IF Fingerprint(q) = Fingerprint(p) THEN "HIT" ELSE "CONFLICT"

\* The position in the stream of the first record of request p that was
\* validated under order id oid.
PositionOf(p, oid) ==
    LET rows == request[p].data.orders
        at == { n \in 1..Len(rows) : is_valid(rows[n]) /\ order_id_of(p, n, rows[n]) = oid }
    IN  CHOOSE n \in at : \A m \in at : n <= m

\* C20: the error entry of every batch whose flush failed, the trailing
\* batch included, reports a start row, and that start row is the position
\* in the stream of the batch's first row (counted, as the code counts it,
\* by the records that precede it), also when records that failed validation
\* lie between the rows of the batch.
C20_StartRow ==
    \A p \in Procs :
        \A i \in BatchErrors(p) :
            LET e == errors_metadata[p][i]
            IN  /\ "detail" \in DOMAIN e
                /\ e.detail = PositionOf(p, e.first_order_id) - 1

\* C21: in every flush the order rows of the batch are written before any
\* of its line items, and both in the one transaction: the two tables change
\* in the same step or not at all, a line item is stored only together with
\* the order of its batch it belongs to, and no stored line item refers to
\* an order that is not stored.
C21_Flush ==
    \A p \in Procs :
        LET b == FlushedOrders(p)
        IN  b # << >> =>
              LET f == flush(core_order, core_orderitem, b, FlushedItems(p))
              IN  /\ f.written # << >>
                  /\ \A i, j \in 1..Len(f.written) :
                        (f.written[i] = "core_order" /\ f.written[j] = "core_orderitem")
                            => i < j
                  /\ core_order' = f.core_order /\ core_orderitem' = f.core_orderitem
                  /\ (core_orderitem' # core_orderitem) <=> (core_order' # core_order)
                  /\ \A it \in core_orderitem' \ core_orderitem :
                        /\ it.order_id \in Range(b)
                        /\ it.order_id \in core_order' \ core_order

C21_Referenced == \A it \in core_orderitem : it.order_id \in core_order

C21_OrdersBeforeItems == [] C21_Referenced /\ [][C21_Flush]_vars

C21_Witness ==
    \E p \in Procs :
        /\ request[p].data.orders = ExampleRows
        /\ pc[p] = "finalize"
        /\ { it.order_id : it \in core_orderitem } = {uuid4(p, 1), uuid4(p, 2), uuid4(p, 5)}
        /\ core_order = {uuid4(p, 1), uuid4(p, 2), uuid4(p, 5)}

\* C22: for every request that reserved its key and returned its summary,
\* the metadata finalize stored in the record of the key is the body the
\* request returned, field by field, and stays so in every later state.
C22_StoredIsReturned ==
    \A p \in Procs :
        (status[p] = "MISS" /\ Summarised(p))
        => /\ objects_get(request[p].key) # {}
           /\ \A r \in objects_get(request[p].key) :
                 /\ DOMAIN r.metadata = DOMAIN response[p].body
                 /\ r.metadata = response[p].body

C22_Witness ==
    \E p, q \in Procs :
        /\ status[p] = "MISS" /\ Summarised(p)
        /\ response[p].body.rows_inserted = 2 /\ response[p].body.processing_time = 1
        /\ \E r \in objects_get(request[p].key) : r.metadata = response[p].body
        /\ Follows(p, q) /\ pc[q] = "done"

====
